---- MODULE Spec2Model ----
(***************************************************************************)
(* Monte Carlo tree search of agent.h (class node, class player) over a    *)
(* NoGo board.  The board of board.h is modelled as NoGo on a strip of     *)
(* BoardSize cells; the search (select, expand, simulate, update,          *)
(* take_action, run_mcts) follows agent.h statement by statement.          *)
(***************************************************************************)
EXTENDS Integers, Sequences, FiniteSets, TLC

\* ------------------------------------------------------------------ bounds
\* number of cells of the board (81 in the program: the move ids 0..80)
BoardSize == 5
\* largest iteration count N given to run_mcts
MaxN == 8
\* number of states of the random engine
EngineMod == 12

\* ------------------------------------------------------------------ board.h
\* board::piece_type
Empty == 0
Black == 1
White == 2

Cells == 0..(BoardSize - 1)

\* the other player
Opponent(who) == 3 - who

\* the cells next to c on the strip
Neighbors(c) == {d \in {c - 1, c + 1} : d \in Cells}

\* the connected stones of colour col that contain the set S
RECURSIVE Flood(_, _, _)
Flood(stone, col, S) ==
  LET T == S \cup {d \in Cells : /\ stone[d + 1] = col
                                 /\ \E e \in S : d \in Neighbors(e)}
  IN  IF T = S THEN S ELSE Flood(stone, col, T)

\* the group of the stone at c has an empty neighbour
HasLiberty(stone, c) ==
  \E e \in Flood(stone, stone[c + 1], {c}) :
    \E d \in Neighbors(e) : stone[d + 1] = Empty

\* board::place(move) == board::legal : the cell is on the board and empty, and
\* with the stone placed neither its own group nor a neighbouring group of the
\* opponent is left without a liberty
IsLegal(b, move) ==
  /\ move \in Cells
  /\ b.stone[move + 1] = Empty
  /\ LET t == [b.stone EXCEPT ![move + 1] = b.who]
     IN  /\ HasLiberty(t, move)
         /\ \A d \in Neighbors(move) :
              t[d + 1] = Opponent(b.who) => HasLiberty(t, d)

\* board::place(move): a legal move puts the stone, records last_move and passes
\* the turn; an illegal one leaves the board as it is
Place(b, move) ==
  IF IsLegal(b, move)
  THEN [stone |-> [b.stone EXCEPT ![move + 1] = b.who],
        who   |-> Opponent(b.who),
        last  |-> move]
  ELSE b

\* the moves that are legal on b
LegalMoves(b) == {m \in Cells : IsLegal(b, m)}

\* the empty board, black to move, no last move
EmptyBoard == [stone |-> [c \in 1..BoardSize |-> Empty], who |-> Black, last |-> -1]

\* the boards a game can reach from the empty board
RECURSIVE Closure(_)
Closure(S) ==
  LET T == S \cup {Place(b, m) : b \in S, m \in Cells}
  IN  IF T = S THEN S ELSE Closure(T)

ReachableBoards == Closure({EmptyBoard})

\* ------------------------------------------------------------------ random engine
\* the engine's next state after one std::shuffle
EngineNext(s) == (5 * s + 3) % EngineMod

RECURSIVE Fact(_)
Fact(n) == IF n <= 1 THEN 1 ELSE n * Fact(n - 1)

\* the sequence s without its k-th element
RemoveAt(s, k) == [j \in 1..(Len(s) - 1) |-> IF j < k THEN s[j] ELSE s[j + 1]]

\* the permutation of pool with lexicographic index idx
RECURSIVE Permute(_, _)
Permute(pool, idx) ==
  IF Len(pool) = 0 THEN <<>>
  ELSE LET f == Fact(Len(pool) - 1)
           k == (idx \div f) + 1
       IN  <<pool[k]>> \o Permute(RemoveAt(pool, k), idx % f)

\* node::all_moves: the move ids 0..BoardSize-1 in the order the engine's
\* state s shuffles them into
all_moves(s) ==
  Permute([j \in 1..BoardSize |-> j - 1], (97 * s + 11) % Fact(BoardSize))

\* ------------------------------------------------------------------ class node
VARIABLES
  tree,      \* the nodes in order of creation: board, win, visit, child, parent,
             \* and where the node is stored (addr) and its child vector's capacity
  heap,      \* the next address the allocator hands out
  engine,    \* the state of the std::default_random_engine
  meta,      \* the agent's options: key -> value, a string as a tuple of characters
  N,         \* run_mcts' argument
  i,         \* run_mcts' loop counter
  pc,        \* where run_mcts is
  path,      \* select's / run_mcts' path (node pointers)
  cur_node,  \* select's cursor
  max_node,  \* select's best child so far
  leaf,      \* run_mcts' leaf
  winner,    \* the result of simulate
  k,         \* update's position in path
  result,    \* the action run_mcts returns
  term_leaf, \* history: iterations whose selected leaf had no legal move
  root_only  \* history: iterations whose path was the root alone

vars == <<tree, heap, engine, meta, N, i, pc, path, cur_node, max_node, leaf, winner, k,
          result, term_leaf, root_only>>

\* nullptr
NULL == 0
\* where the root lives: the temporary node(state) of player::take_action
RootAddr == 1
\* the root is the first node created
Root == 1

Nodes == 1..Len(tree)

\* some node is stored at address a
Live(a) == \E n \in Nodes : tree[n].addr = a

\* the node stored at address a
NodeAt(a) == CHOOSE n \in Nodes : tree[n].addr = a

\* action(): no move
NoAction == [pos |-> -1, who |-> Empty]

\* the node whose child vector holds n
ParentOf(n) == CHOOSE p \in Nodes : \E j \in 1..Len(tree[p].child) : tree[p].child[j] = n

\* node::is_selectable: a fully expanded node that is not terminal
is_selectable(n) ==
  LET legal_moves == Cardinality(LegalMoves(tree[n].board))
  IN  IF legal_moves = 0 THEN FALSE
      ELSE IF legal_moves = Len(tree[n].child) THEN TRUE
      ELSE FALSE

\* a float that is not a number; every comparison with it is false
NaN == -2

\* a >= b on floats, b a number
ScoreGE(a, b) == a # NaN /\ a >= b

\* a > b on floats, b a number
ScoreGT(a, b) == a # NaN /\ a > b

\* the values a read through a dangling pointer can give
Garbage == 0..MaxN

\* parent->visit of node n: the counter of the node stored where n's parent
\* pointer points, or g when no node is stored there any more
ParentVisit(n, g) ==
  IF Live(tree[n].parent) THEN tree[NodeAt(tree[n].parent)].visit ELSE g

\* the float32 bit pattern of float(w)/v + float(sqrt(2)) * float(sqrt(log(V)/v)),
\* as UcbBits[V][v][w + 1] for 1 <= V, v <= 10 and 0 <= w <= v; floats >= 0 are
\* ordered as their bit patterns are
UcbBits ==
  <<
    << <<0, 1065353216>>,
       <<0, 1056964608, 1065353216>>,
       <<0, 1051372203, 1059760811, 1065353216>>,
       <<0, 1048576000, 1056964608, 1061158912, 1065353216>>,
       <<0, 1045220557, 1053609165, 1058642330, 1061997773, 1065353216>>,
       <<0, 1042983595, 1051372203, 1056964608, 1059760811, 1062557013, 1065353216>>,
       <<0, 1041385765, 1049774373, 1054567863, 1058162981, 1060559726, 1062956471, 1065353216>>,
       <<0, 1040187392, 1048576000, 1052770304, 1056964608, 1059061760, 1061158912, 1063256064, 1065353216>>,
       <<0, 1038323257, 1046711865, 1051372203, 1055100473, 1057896676, 1059760811, 1061624946, 1063489081, 1065353216>>,
       <<0, 1036831949, 1045220557, 1050253722, 1053609165, 1056964608, 1058642330, 1060320051, 1061997773, 1063675494, 1065353216>> >>,
    << <<1066841439, 1074485936>>,
       <<1062543948, 1068142886, 1072337190>>,
       <<1059980782, 1065463202, 1068259404, 1071055607>>,
       <<1058452831, 1062647135, 1066097328, 1068194480, 1070291632>>,
       <<1057410106, 1060765549, 1064120992, 1066414826, 1068092548, 1069770269>>,
       <<1056316189, 1059436601, 1062232804, 1065029006, 1066589213, 1067987314, 1069385415>>,
       <<1055119757, 1058438928, 1060835673, 1063232418, 1065491190, 1066689562, 1067887935, 1069086307>>,
       <<1054155340, 1057657126, 1059754278, 1061851430, 1063948582, 1065699475, 1066748051, 1067796627, 1068845203>>,
       <<1053356500, 1057024689, 1058888824, 1060752960, 1062617094, 1064481230, 1065849290, 1066781358, 1067713426, 1068645493>>,
       <<1052680704, 1056036147, 1058178099, 1059855821, 1061533542, 1063211264, 1064888986, 1065959962, 1066798822, 1067637683, 1068476544>> >>,
    << <<1069399073, 1075764752>>,
       <<1065757103, 1069951407, 1073943768>>,
       <<1062934084, 1066939853, 1069736056, 1072532258>>,
       <<1061010465, 1065204769, 1067376144, 1069473296, 1071570448>>,
       <<1059697724, 1063053167, 1065880913, 1067558635, 1069236356, 1070914078>>,
       <<1058728698, 1061524901, 1064321104, 1066235261, 1067633362, 1069031464, 1070429565>>,
       <<1057975572, 1060372317, 1062769062, 1065165808, 1066457884, 1067656257, 1068854630, 1070053002>>,
       <<1057368495, 1059465647, 1061562799, 1063659951, 1065555160, 1066603736, 1067652312, 1068700888, 1069749464>>,
       <<1056766680, 1058729779, 1060593914, 1062458050, 1064322184, 1065769768, 1066701836, 1067633903, 1068565970, 1069498038>>,
       <<1055915885, 1058117968, 1059795690, 1061473412, 1063151133, 1064828854, 1065929896, 1066768757, 1067607618, 1068446478, 1069285339>> >>,
    << <<1070932556, 1076531494>>,
       <<1066841439, 1071035743, 1074485936>>,
       <<1064704797, 1067825209, 1070621412, 1073417614>>,
       <<1062543948, 1066045734, 1068142886, 1070240038, 1072337190>>,
       <<1061069312, 1064424755, 1066566707, 1068244429, 1069922150, 1071599872>>,
       <<1059980782, 1062776985, 1065463202, 1066861303, 1068259404, 1069657506, 1071055607>>,
       <<1059134776, 1061531521, 1063928266, 1065839114, 1067037486, 1068235859, 1069434232, 1070632604>>,
       <<1058452831, 1060549983, 1062647135, 1064744287, 1066097328, 1067145904, 1068194480, 1069243056, 1070291632>>,
       <<1057887965, 1059752100, 1061616235, 1063480370, 1065344506, 1066280928, 1067212996, 1068145064, 1069077131, 1070009198>>,
       <<1057410106, 1059087828, 1060765549, 1062443271, 1064120992, 1065575965, 1066414826, 1067253686, 1068092548, 1068931408, 1069770269>> >>,
    << <<1072014799, 1077072616>>,
       <<1067606700, 1071801004, 1074868566>>,
       <<1065653840, 1068450043, 1071246246, 1073892136>>,
       <<1063626191, 1066586856, 1068684008, 1070781160, 1072878312>>,
       <<1062037300, 1065372980, 1067050701, 1068728423, 1070406144, 1072083866>>,
       <<1060864430, 1063660633, 1065905026, 1067303127, 1068701228, 1070099330, 1071497431>>,
       <<1059952875, 1062349620, 1064746366, 1066248163, 1067446536, 1068644908, 1069843281, 1071041654>>,
       <<1059218092, 1061315244, 1063412396, 1065431382, 1066479958, 1067528534, 1068577110, 1069625686, 1070674262>>,
       <<1058609460, 1060473595, 1062337730, 1064201866, 1065709608, 1066641676, 1067573744, 1068505811, 1069437878, 1070369946>>,
       <<1058094576, 1059772298, 1061450019, 1063127741, 1064805462, 1065918200, 1066757061, 1067595922, 1068434782, 1069273643, 1070112504>> >>,
    << <<1072844397, 1077487414>>,
       <<1068193315, 1072387619, 1075161874>>,
       <<1066132809, 1068929012, 1071725214, 1074131620>>,
       <<1064455789, 1067001654, 1069098806, 1071195958, 1073293110>>,
       <<1062779316, 1065743988, 1067421709, 1069099431, 1070777152, 1072454874>>,
       <<1061541794, 1064337997, 1066243708, 1067641809, 1069039910, 1070438012, 1071836113>>,
       <<1060579993, 1062976738, 1065363350, 1066561722, 1067760095, 1068958468, 1070156840, 1071355212>>,
       <<1059804707, 1061901859, 1063999011, 1065724690, 1066773266, 1067821842, 1068870418, 1069918994, 1070967570>>,
       <<1059162527, 1061026662, 1062890797, 1064754932, 1065986142, 1066918210, 1067850277, 1068782344, 1069714412, 1070646480>>,
       <<1058619261, 1060296983, 1061974704, 1063652426, 1065330148, 1066180542, 1067019404, 1067858264, 1068697125, 1069535986, 1070374846>> >>,
    << <<1073513400, 1077821916>>,
       <<1068666371, 1072860675, 1075398402>>,
       <<1066519057, 1069315260, 1072111462, 1074324744>>,
       <<1065124792, 1067336156, 1069433308, 1071530460, 1073627612>>,
       <<1063377689, 1066043174, 1067720896, 1069398618, 1071076339, 1072754060>>,
       <<1062088031, 1064884234, 1066516826, 1067914928, 1069313029, 1070711130, 1072109232>>,
       <<1061085710, 1063482455, 1065616208, 1066814581, 1068012954, 1069211326, 1070409698, 1071608071>>,
       <<1060277763, 1062374915, 1064472067, 1065961218, 1067009794, 1068058370, 1069106946, 1070155522, 1071204098>>,
       <<1059608527, 1061472662, 1063336797, 1065200932, 1066209142, 1067141210, 1068073277, 1069005344, 1069937412, 1070869480>>,
       <<1059042374, 1060720096, 1062397817, 1064075539, 1065553238, 1066392099, 1067230960, 1068069820, 1068908682, 1069747542, 1070586403>> >>,
    << <<1073906802, 1078101106>>,
       <<1069061207, 1073255511, 1075595820>>,
       <<1066841439, 1069637642, 1072433844, 1074485936>>,
       <<1065518194, 1067615346, 1069712498, 1071809650, 1073824313>>,
       <<1063877120, 1066292890, 1067970611, 1069648333, 1071326054, 1073003776>>,
       <<1062543948, 1065340151, 1066744785, 1068142886, 1069540988, 1070939088, 1072337190>>,
       <<1061507808, 1063904553, 1065827257, 1067025630, 1068224002, 1069422375, 1070620748, 1071819120>>,
       <<1060672599, 1062769751, 1064866903, 1066158636, 1067207212, 1068255788, 1069304364, 1070352940, 1071401516>>,
       <<1059980782, 1061844917, 1063709052, 1065463202, 1066395269, 1067327337, 1068259404, 1069191472, 1070123540, 1071055607>>,
       <<1059395526, 1061073248, 1062750969, 1064428691, 1065729814, 1066568675, 1067407536, 1068246396, 1069085258, 1069924118, 1070762979>> >>,
    << <<1074145711, 1078340015>>,
       <<1069399073, 1073593377, 1075764752>>,
       <<1067117306, 1069913509, 1072709712, 1074623869>>,
       <<1065757103, 1067854255, 1069951407, 1072048559, 1073943768>>,
       <<1064304493, 1066506576, 1068184298, 1069862020, 1071539741, 1073217462>>,
       <<1062934084, 1065541751, 1066939853, 1068337954, 1069736056, 1071134156, 1072532258>>,
       <<1061869002, 1064265747, 1066007854, 1067206227, 1068404600, 1069602972, 1070801344, 1071999717>>,
       <<1061010465, 1063107617, 1065204769, 1066327568, 1067376144, 1068424720, 1069473296, 1070521872, 1071570448>>,
       <<1060299326, 1062163461, 1064027596, 1065622474, 1066554541, 1067486609, 1068418676, 1069350744, 1070282812, 1071214879>>,
       <<1059697724, 1061375446, 1063053167, 1064730889, 1065880913, 1066719774, 1067558635, 1068397496, 1069236356, 1070075217, 1070914078>> >>,
    << <<1074354049, 1078548353>>,
       <<1069693709, 1073814918, 1075912070>>,
       <<1067357875, 1070154078, 1072950280, 1074744154>>,
       <<1065965441, 1068062593, 1070159745, 1072256897, 1074047936>>,
       <<1064677180, 1066692920, 1068370641, 1070048363, 1071726084, 1073403806>>,
       <<1063274300, 1065711859, 1067109961, 1068508062, 1069906164, 1071304264, 1072702366>>,
       <<1062183981, 1064580726, 1066165344, 1067363716, 1068562089, 1069760462, 1070958834, 1072157206>>,
       <<1061305101, 1063402253, 1065426310, 1066474886, 1067523462, 1068572038, 1069620614, 1070669190, 1071717766>>,
       <<1060577112, 1062441247, 1064305382, 1065761367, 1066693434, 1067625502, 1068557570, 1069489637, 1070421704, 1071353772>>,
       <<1059961254, 1061638976, 1063316697, 1064994419, 1066012678, 1066851539, 1067690400, 1068529260, 1069368122, 1070206982, 1071045843>> >>
  >>

\* node::ucb_score of node n, in float arithmetic: 0/0 and log(0) give NaN
ucb_score(n, g) ==
  LET v == tree[n].visit
      pv == ParentVisit(n, g)
  IN  IF v = 0 \/ pv = 0 THEN NaN ELSE UcbBits[pv][v][tree[n].win + 1]

\* select's inner loop over the children of n from index idx on
RECURSIVE BestChild(_, _, _, _, _)
BestChild(n, idx, max_score, best, g) ==
  IF idx > Len(tree[n].child) THEN best
  ELSE LET c == tree[n].child[idx]
           s == ucb_score(c, g)
       IN  IF ScoreGT(s, max_score)
           THEN BestChild(n, idx + 1, s, tree[c].addr, g)
           ELSE BestChild(n, idx + 1, max_score, best, g)

\* expand: move is already the last move of a child of n
AlreadyChild(n, move) ==
  \E j \in 1..Len(tree[n].child) : tree[tree[n].child[j]].board.last = move

\* expand without the test that the move is legal
ExpandableAnyMove(n, move) == ~AlreadyChild(n, move)

\* expand without the scan of the existing children
ExpandableAgain(n, move) == IsLegal(tree[n].board, move)

\* expand's test of one move: no child has it and it is legal
Expandable(n, move) == ~AlreadyChild(n, move) /\ IsLegal(tree[n].board, move)

\* the first position from j on in moves whose move expand takes, 0 when none
RECURSIVE FirstExpandable(_, _, _)
FirstExpandable(n, moves, j) ==
  IF j > Len(moves) THEN 0
  ELSE IF Expandable(n, moves[j]) THEN j
  ELSE FirstExpandable(n, moves, j + 1)

\* the parent pointer of a new child taken from the expanded node's own parent
NewParentOfParent(n) == tree[n].parent

\* the parent pointer expand gives a new child of n: this
NewParent(n) == tree[n].addr

\* the capacity std::vector grows to
NewCap(cap) == IF cap = 0 THEN 1 ELSE 2 * cap

\* child.push_back(node(b, this)) at node n: the tree and the allocator after it.
\* A full vector moves to a new buffer, which gives every child a new address.
PushBack(n, b) ==
  LET kids == tree[n].child
      sz   == Len(kids)
      grow == sz = tree[n].cap
      base == IF grow THEN heap ELSE tree[kids[1]].addr
      new  == [board |-> b, win |-> 0, visit |-> 0, child |-> <<>>,
               parent |-> NewParent(n), addr |-> base + sz, cap |-> 0]
      at(m) == CHOOSE j \in 1..sz : kids[j] = m
      moved == [m \in Nodes |->
                  IF grow /\ (\E j \in 1..sz : kids[j] = m)
                  THEN [tree[m] EXCEPT !.addr = base + at(m) - 1]
                  ELSE tree[m]]
      owner == [moved[n] EXCEPT !.child = Append(kids, Len(tree) + 1),
                                !.cap = IF grow THEN NewCap(sz) ELSE @]
  IN  [tree |-> Append([moved EXCEPT ![n] = owner], new),
       heap |-> IF grow THEN heap + NewCap(sz) ELSE heap]

\* simulate: the first position in moves whose move is legal on b, 0 when none
RECURSIVE FirstLegal(_, _, _)
FirstLegal(b, moves, j) ==
  IF j > Len(moves) THEN 0
  ELSE IF IsLegal(b, moves[j]) THEN j
  ELSE FirstLegal(b, moves, j + 1)

\* simulate's loop: place the first legal move of moves until none is legal
RECURSIVE Playout(_, _)
Playout(b, moves) ==
  LET j == FirstLegal(b, moves, 1)
  IN  IF j = 0 THEN b ELSE Playout(Place(b, moves[j]), moves)

\* simulate that returns the player to move at the end of the playout
simulate_loser(b, moves) == Playout(b, moves).who

\* node::simulate from board b with the shuffled moves
simulate(b, moves) ==
  IF Playout(b, moves).who = White THEN Black ELSE White

\* update with win += winner
update_node_add(nd, w) ==
  [nd EXCEPT !.visit = @ + 1,
             !.win = IF w = tree[Root].board.who THEN @ + w ELSE @]

\* update with visit++ inside the if
update_node_inside(nd, w) ==
  IF w = tree[Root].board.who
  THEN [nd EXCEPT !.visit = @ + 1, !.win = @ + 1]
  ELSE nd

\* update's loop body on one node of the path; info() is the root's
update_node(nd, w) ==
  [nd EXCEPT !.visit = @ + 1,
             !.win = IF w = tree[Root].board.who THEN @ + 1 ELSE @]

\* take_action's comparison with >=
VisitBeatsOrTies(v, max_visit) == v >= max_visit

\* take_action's comparison
VisitBeats(v, max_visit) == v > max_visit

\* take_action's loop over the root's children from index idx on
RECURSIVE BestVisited(_, _, _)
BestVisited(idx, max_visit, best_node) ==
  IF idx > Len(tree[Root].child) THEN best_node
  ELSE LET c == tree[Root].child[idx]
       IN  IF VisitBeats(tree[c].visit, max_visit)
           THEN BestVisited(idx + 1, tree[c].visit, tree[c].addr)
           ELSE BestVisited(idx + 1, max_visit, best_node)

\* node::take_action on the root
take_action ==
  LET best_node == BestVisited(1, -1, NULL)
  IN  IF best_node # NULL
      THEN [pos |-> tree[NodeAt(best_node)].board.last, who |-> tree[Root].board.who]
      ELSE NoAction

\* run_mcts' loop test with <=
LoopCondInclusive(j, n) == j <= n

\* run_mcts' loop test
LoopCond(j, n) == j < n

\* ------------------------------------------------------------------ agent options
\* the decimal digits; DigitChars[d + 1] is the character of digit d
DigitChars == <<"0", "1", "2", "3", "4", "5", "6", "7", "8", "9">>

IsDigit(ch) == \E d \in 1..Len(DigitChars) : DigitChars[d] = ch

DigitValue(ch) == (CHOOSE d \in 1..Len(DigitChars) : DigitChars[d] = ch) - 1

\* the digits of s from position j on: their value after acc, and where they end
RECURSIVE ReadDigits(_, _, _)
ReadDigits(s, j, acc) ==
  IF j <= Len(s) /\ IsDigit(s[j])
  THEN ReadDigits(s, j + 1, 10 * acc + DigitValue(s[j]))
  ELSE [val |-> acc, next |-> j]

\* std::stod that gives 0 where no conversion can be made
StodLenient(s) ==
  LET int == ReadDigits(s, 1, 0)
  IN  [ok |-> TRUE, val |-> int.val]

\* numeric(std::stod(s)) for an unsigned numeric: the longest prefix of s of the
\* form digits [. digits] with a digit in it, truncated to its integer part;
\* std::invalid_argument (ok = FALSE) when s has no such prefix
Stod(s) ==
  LET int  == ReadDigits(s, 1, 0)
      frac == IF int.next <= Len(s) /\ s[int.next] = "."
              THEN ReadDigits(s, int.next + 1, 0).next - (int.next + 1)
              ELSE 0
  IN  IF int.next > 1 \/ frac > 0
      THEN [ok |-> TRUE, val |-> int.val]
      ELSE [ok |-> FALSE, val |-> 0]

\* size_t N = 200 in player::take_action
DefaultN == 200

\* select's path is followed up to this length: two more than the deepest tree
PathCap == BoardSize + 2

\* ------------------------------------------------------------------ run_mcts
\* node(state): a root with no statistics, no children and no parent
NewRoot(b) ==
  [board |-> b, win |-> 0, visit |-> 0, child |-> <<>>,
   parent |-> NULL, addr |-> RootAddr, cap |-> 0]

\* player::take_action builds node(state) on a board of the game and calls
\* run_mcts(N, engine)
Init ==
  /\ \E b \in ReachableBoards : tree = <<NewRoot(b)>>
  /\ heap = RootAddr + 1
  /\ engine \in 0..(EngineMod - 1)
  /\ N \in 0..MaxN
  /\ meta = ("N" :> <<DigitChars[N + 1]>>)
  /\ i = 0
  /\ pc = "loop"
  /\ path = <<>>
  /\ cur_node = NULL
  /\ max_node = NULL
  /\ leaf = NULL
  /\ winner = Empty
  /\ k = 0
  /\ result = NoAction
  /\ term_leaf = 0
  /\ root_only = 0

\* for (i < N): enter the body; select starts at the root
LoopEnter ==
  /\ pc = "loop"
  /\ LoopCond(i, N)
  /\ pc' = "select"
  /\ path' = <<tree[Root].addr>>
  /\ cur_node' = tree[Root].addr
  /\ max_node' = NULL
  /\ UNCHANGED <<tree, heap, engine, meta, N, i, leaf, winner, k, result, term_leaf, root_only>>

\* one round of select's while loop: the cursor moves to the best child.  When no
\* child's score beats the floor of -1, max_node keeps its old value; a null
\* cursor makes the next is_selectable call undefined
SelectStep ==
  /\ pc = "select"
  /\ is_selectable(NodeAt(cur_node))
  /\ Len(path) < PathCap
  /\ \E g \in Garbage :
       LET best == BestChild(NodeAt(cur_node), 1, -1, max_node, g)
       IN  /\ max_node' = best
           /\ cur_node' = best
           /\ path' = Append(path, best)
           /\ pc' = IF best = NULL THEN "undefined" ELSE "select"
  /\ UNCHANGED <<tree, heap, engine, meta, N, i, leaf, winner, k, result, term_leaf, root_only>>

\* select returns the path when the cursor is not selectable
SelectReturn ==
  /\ pc = "select"
  /\ ~is_selectable(NodeAt(cur_node))
  /\ pc' = "expand"
  /\ cur_node' = NULL
  /\ max_node' = NULL
  /\ UNCHANGED <<tree, heap, engine, meta, N, i, path, leaf, winner, k, result, term_leaf, root_only>>

\* leaf = path.back()->expand(engine); if (leaf != path.back()) path.push_back(leaf)
Expand ==
  /\ pc = "expand"
  /\ LET back  == path[Len(path)]
         n     == NodeAt(back)
         moves == all_moves(engine)
         j     == FirstExpandable(n, moves, 1)
     IN  IF j = 0
         THEN /\ leaf' = back
              /\ UNCHANGED <<tree, heap, path>>
              /\ term_leaf' = IF LegalMoves(tree[n].board) = {} THEN term_leaf + 1 ELSE term_leaf
              /\ root_only' = IF Len(path) = 1 THEN root_only + 1 ELSE root_only
         ELSE LET pb == PushBack(n, Place(tree[n].board, moves[j]))
                  created == pb.tree[Len(pb.tree)].addr
              IN  /\ tree' = pb.tree
                  /\ heap' = pb.heap
                  /\ leaf' = created
                  /\ path' = Append(path, created)
                  /\ UNCHANGED <<term_leaf, root_only>>
  /\ engine' = EngineNext(engine)
  /\ pc' = "simulate"
  /\ UNCHANGED <<meta, N, i, cur_node, max_node, winner, k, result>>

\* leaf->simulate(engine)
Simulate ==
  /\ pc = "simulate"
  /\ winner' = simulate(tree[NodeAt(leaf)].board, all_moves(engine))
  /\ engine' = EngineNext(engine)
  /\ pc' = "update"
  /\ k' = 1
  /\ UNCHANGED <<tree, heap, meta, N, i, path, cur_node, max_node, leaf, result, term_leaf, root_only>>

\* update's loop body on path[k]
UpdateStep ==
  /\ pc = "update"
  /\ k <= Len(path)
  /\ tree' = [tree EXCEPT ![NodeAt(path[k])] = update_node(@, winner)]
  /\ k' = k + 1
  /\ UNCHANGED <<heap, engine, meta, N, i, pc, path, cur_node, max_node, leaf, winner, result,
                 term_leaf, root_only>>

\* update returns and the body ends: i++
IterEnd ==
  /\ pc = "update"
  /\ k > Len(path)
  /\ i' = i + 1
  /\ pc' = "loop"
  /\ path' = <<>>
  /\ leaf' = NULL
  /\ winner' = Empty
  /\ k' = 0
  /\ UNCHANGED <<tree, heap, engine, meta, N, cur_node, max_node, result, term_leaf, root_only>>

\* the loop is over: return take_action()
TakeAction ==
  /\ pc = "loop"
  /\ ~LoopCond(i, N)
  /\ result' = take_action
  /\ pc' = "done"
  /\ UNCHANGED <<tree, heap, engine, meta, N, i, path, cur_node, max_node, leaf, winner, k,
                 term_leaf, root_only>>

Next ==
  \/ LoopEnter
  \/ SelectStep
  \/ SelectReturn
  \/ Expand
  \/ Simulate
  \/ UpdateStep
  \/ IterEnd
  \/ TakeAction

Spec == Init /\ [][Next]_vars

\* ------------------------------------------------------------------ player::take_action
\* the values of the option N an agent is built with: none, empty, integers,
\* numbers with a fraction, digits followed by other text, and text
NOptions ==
  {<<>>, <<"0">>, <<"1">>, <<"3">>, <<"0", "2">>, <<"1", ".", "5">>, <<".", "7">>,
   <<"2", "x">>, <<"x">>, <<".">>, <<"N">>}

\* agent(args): meta holds the pairs of args; of these take_action reads N
InitAgent ==
  /\ meta \in {[key \in {} |-> <<>>]} \cup {("N" :> v) : v \in NOptions}
  /\ tree = <<>>
  /\ heap = RootAddr + 1
  /\ engine \in 0..(EngineMod - 1)
  /\ N = DefaultN
  /\ i = 0
  /\ pc = "take_action"
  /\ path = <<>>
  /\ cur_node = NULL
  /\ max_node = NULL
  /\ leaf = NULL
  /\ winner = Empty
  /\ k = 0
  /\ result = NoAction
  /\ term_leaf = 0
  /\ root_only = 0

\* player::take_action(state): N = meta["N"] inserts an empty value when the key
\* is missing and converts the value; the conversion throws, or node(state) is
\* built and run_mcts(N, engine) starts
PlayerTakeAction ==
  /\ pc = "take_action"
  /\ LET inserted == IF "N" \in DOMAIN meta THEN meta ELSE meta @@ ("N" :> <<>>)
         converted == Stod(inserted["N"])
     IN  /\ meta' = inserted
         /\ IF converted.ok
            THEN /\ N' = converted.val
                 /\ \E state \in ReachableBoards : tree' = <<NewRoot(state)>>
                 /\ pc' = "loop"
            ELSE /\ pc' = "error"
                 /\ UNCHANGED <<tree, N>>
  /\ UNCHANGED <<heap, engine, i, path, cur_node, max_node, leaf, winner, k, result,
                 term_leaf, root_only>>

AgentNext ==
  \/ PlayerTakeAction
  \/ Next

AgentSpec == InitAgent /\ [][AgentNext]_vars

\* ------------------------------------------------------------------ select and expand on a given node
\* select and expand are protected members: a caller in a derived class applies
\* them to a node whose children and statistics earlier calls of expand and
\* update have left in any state

\* largest visit count of a given node
MaxVisit == 2
\* largest number of children of a given node
MaxKids == 2

\* the legal moves of b from move m on, in ascending order
RECURSIVE SortedMoves(_, _)
SortedMoves(b, m) ==
  IF m >= BoardSize THEN <<>>
  ELSE (IF IsLegal(b, m) THEN <<m>> ELSE <<>>) \o SortedMoves(b, m + 1)

\* the capacity of a child vector after n push_backs
RECURSIVE CapAfter(_)
CapAfter(n) ==
  IF n = 0 THEN 0
  ELSE IF n <= CapAfter(n - 1) THEN CapAfter(n - 1)
  ELSE NewCap(CapAfter(n - 1))

\* the allocator after n push_backs on the root's child vector
RECURSIVE HeapAfter(_)
HeapAfter(n) ==
  IF n = 0 THEN RootAddr + 1
  ELSE IF n <= CapAfter(n - 1) THEN HeapAfter(n - 1)
  ELSE HeapAfter(n - 1) + CapAfter(n)

\* the statistics update can leave in a node
Stats == {st \in [visit : 0..MaxVisit, win : 0..MaxVisit] : st.win <= st.visit}

\* a root on board b with visit count rv whose children, one for each of the
\* first Len(st) legal moves, have the statistics st
GivenTree(b, rv, st) ==
  LET moves == SortedMoves(b, 0)
      nk    == Len(st)
      base  == HeapAfter(nk) - CapAfter(nk)
  IN  <<[NewRoot(b) EXCEPT !.visit = rv,
                           !.child = [j \in 1..nk |-> j + 1],
                           !.cap = CapAfter(nk)]>> \o
      [j \in 1..nk |->
         [board |-> Place(b, moves[j]), win |-> st[j].win, visit |-> st[j].visit,
          child |-> <<>>, parent |-> RootAddr, addr |-> base + j - 1, cap |-> 0]]

\* select() is called on a node with a child for every legal move, or expand()
\* on a node with children for some of its legal moves
InitNode ==
  /\ \E b \in ReachableBoards :
       \E nk \in 0..MaxKids :
         /\ nk <= Len(SortedMoves(b, 0))
         /\ \E st \in [1..nk -> Stats], rv \in 0..MaxVisit :
              /\ tree = GivenTree(b, rv, st)
              /\ heap = HeapAfter(nk)
              /\ \/ /\ pc = "select"
                    /\ nk = Len(SortedMoves(b, 0))
                    /\ engine = 0
                 \/ /\ pc = "expand"
                    /\ rv = 0
                    /\ \A j \in 1..nk : st[j].visit = 0
                    /\ engine \in 0..(EngineMod - 1)
  /\ path = <<RootAddr>>
  /\ cur_node = IF pc = "select" THEN RootAddr ELSE NULL
  /\ max_node = NULL
  /\ N = 0
  /\ meta = ("N" :> <<DigitChars[1]>>)
  /\ i = 0
  /\ leaf = NULL
  /\ winner = Empty
  /\ k = 0
  /\ result = NoAction
  /\ term_leaf = 0
  /\ root_only = 0

NextNode ==
  \/ SelectStep
  \/ SelectReturn
  \/ Expand

NodeSpec == InitNode /\ [][NextNode]_vars

\* ------------------------------------------------------------------ properties
RECURSIVE SumVisits(_, _)
SumVisits(kids, j) ==
  IF j > Len(kids) THEN 0 ELSE tree[kids[j]].visit + SumVisits(kids, j + 1)

RootTerminal == LegalMoves(tree[Root].board) = {}

\* C1: in every state of run_mcts, between and inside iterations, every node has
\* 0 <= win <= visit
C1_WinWithinVisit ==
  \A n \in Nodes : 0 <= tree[n].win /\ tree[n].win <= tree[n].visit

\* C1 witness: update is half way through a path and some node has won all of its
\* two or more visits
C1_Witness ==
  /\ pc = "update" /\ 1 < k /\ k <= Len(path)
  /\ \E n \in Nodes : tree[n].visit >= 2 /\ tree[n].win = tree[n].visit

\* C2: update increments win at a non-root node it visits if and only if the
\* winner is the player to move at that node's parent, at every depth
C2_WinCreditsChooser ==
  [][\A n \in Nodes \ {Root} :
       tree'[n].visit = tree[n].visit + 1 =>
         ((tree'[n].win = tree[n].win + 1) <=> (winner = tree[ParentOf(n)].board.who))]_vars

\* C3: take_action returns the last move of the first root child among those with
\* the highest visit count, and no move when the root has no child
C3_TakeActionFirstMostVisited ==
  pc = "done" =>
    LET kids == tree[Root].child
    IN  IF Len(kids) = 0 THEN result = NoAction
        ELSE \E j \in 1..Len(kids) :
               /\ \A l \in 1..Len(kids) : tree[kids[l]].visit <= tree[kids[j]].visit
               /\ \A l \in 1..(j - 1) : tree[kids[l]].visit < tree[kids[j]].visit
               /\ result.pos = tree[kids[j]].board.last

\* C3 witness: run_mcts has returned and two root children tie for the most
\* visits, behind a first child with fewer
C3_Witness ==
  /\ pc = "done"
  /\ LET kids == tree[Root].child
     IN  \E j, l \in 2..Len(kids) :
           /\ j < l
           /\ tree[kids[j]].visit = tree[kids[l]].visit
           /\ tree[kids[1]].visit < tree[kids[j]].visit
           /\ \A m \in 1..Len(kids) : tree[kids[m]].visit <= tree[kids[j]].visit

\* C4: a move run_mcts returns is legal on the root's board and is made by the
\* player to move there
C4_ReturnedMoveLegal ==
  (pc = "done" /\ result # NoAction) =>
    /\ IsLegal(tree[Root].board, result.pos)
    /\ result.who = tree[Root].board.who

\* C4 witness: a move is returned on a board that also has an empty cell where
\* the player may not play
C4_Witness ==
  /\ pc = "done" /\ result # NoAction
  /\ \E m \in Cells : tree[Root].board.stone[m + 1] = Empty /\ ~IsLegal(tree[Root].board, m)

\* C5 as claimed: after run_mcts(N) the visits of the root's children sum to N
\* minus the number of iterations whose selected leaf was terminal
C5_SumMinusTerminalLeaves ==
  pc = "done" => SumVisits(tree[Root].child, 1) = N - term_leaf

\* C5 amended: after run_mcts(N) the visits of the root's children sum to N minus
\* the number of iterations whose path was the root alone
C5_SumMinusRootOnly ==
  pc = "done" => SumVisits(tree[Root].child, 1) = N - root_only

\* C5 witness: run_mcts has returned after iterations that ended at a terminal
\* node below the root
C5_Witness ==
  pc = "done" /\ term_leaf >= 2 /\ root_only = 0

\* C6: update adds 1 to visit of each node of the path, one node per step, and
\* changes no statistics of another node; no other step changes statistics; so
\* the root's visit is the number of completed iterations, N at the end
C6_VisitFrame ==
  /\ [][IF pc = "update" /\ k <= Len(path)
        THEN /\ tree'[NodeAt(path[k])].visit = tree[NodeAt(path[k])].visit + 1
             /\ k' = k + 1
             /\ \A n \in Nodes \ {NodeAt(path[k])} :
                  tree'[n].visit = tree[n].visit /\ tree'[n].win = tree[n].win
        ELSE /\ \A n \in Nodes :
                  tree'[n].visit = tree[n].visit /\ tree'[n].win = tree[n].win
             /\ pc' = "loop" /\ pc = "update" => k = Len(path) + 1]_vars
  /\ [](\A a, b \in 1..Len(path) : path[a] = path[b] => a = b)
  /\ [](pc \in {"loop", "done"} => tree[Root].visit = i)
  /\ [](pc = "done" => tree[Root].visit = N)

\* C6 witness: update has gone through a path of three nodes or more in a later
\* iteration
C6_Witness ==
  pc = "update" /\ k = Len(path) + 1 /\ Len(path) >= 3 /\ i >= 2

\* C7: on a root without a legal move run_mcts returns no move and mutates no
\* node's statistics more than once
C7_TerminalRootMutatedOnce ==
  RootTerminal =>
    /\ \A n \in Nodes : tree[n].visit <= 1
    /\ pc = "done" => result = NoAction

\* the number of steps run_mcts still takes when every path is the root alone
DegenerateRank ==
  IF pc = "done" THEN -1
  ELSE 6 * (N - i) - (CASE pc = "loop" -> 0
                        [] pc = "select" -> 1
                        [] pc = "expand" -> 2
                        [] pc = "simulate" -> 3
                        [] OTHER -> 3 + k)

\* C8: with N = 0, or on a root without a legal move, run_mcts creates no child
\* and returns no move, and it returns: select never leaves the root nor reaches
\* an undefined state, and every step brings run_mcts closer to the return
C8_DegenerateReturnsNoMove ==
  /\ []((N = 0 \/ RootTerminal) =>
          /\ Len(tree) = 1
          /\ pc = "done" => result = NoAction
          /\ pc # "undefined" /\ Len(path) <= 1)
  /\ [][(N = 0 \/ RootTerminal) =>
          DegenerateRank' < DegenerateRank /\ DegenerateRank' >= -1]_vars

\* C8 witness: run_mcts has returned no move after two or more iterations on a
\* root without a legal move
C8_Witness ==
  pc = "done" /\ RootTerminal /\ N >= 2 /\ i = N /\ result = NoAction

\* C9: every non-root node's parent pointer is the address where its parent is
\* stored now, also after push_back has moved siblings, and ucb_score's read of
\* parent->visit gives the parent's counter
C9_ParentPointersLive ==
  /\ tree[Root].parent = NULL
  /\ \A n \in Nodes \ {Root} :
       /\ tree[n].parent = tree[ParentOf(n)].addr
       /\ \A g \in Garbage : ParentVisit(n, g) = tree[ParentOf(n)].visit
  /\ \A n, m \in Nodes : tree[n].addr = tree[m].addr => n = m

\* C9 witness: select is below the root in a tree where a node's child vector
\* has grown past its first buffer and one of those children has a child
C9_Witness ==
  /\ pc = "select" /\ Len(path) >= 2
  /\ \E p \in Nodes :
       /\ Len(tree[p].child) >= 2
       /\ \E j \in 1..Len(tree[p].child) : Len(tree[tree[p].child[j]].child) >= 1

\* C10: the children of a node have pairwise distinct last moves, each legal on
\* the node's board, so there are no more children than legal moves
C10_ChildrenDistinctLegal ==
  \A n \in Nodes :
    LET kids == tree[n].child
    IN  /\ \A a, b \in 1..Len(kids) :
             tree[kids[a]].board.last = tree[kids[b]].board.last => a = b
        /\ \A a \in 1..Len(kids) : IsLegal(tree[n].board, tree[kids[a]].board.last)
        /\ Len(kids) <= Cardinality(LegalMoves(tree[n].board))

\* C10 witness: a node below the root has a child for each of its two or more
\* legal moves
C10_Witness ==
  \E n \in Nodes \ {Root} :
    /\ Len(tree[n].child) >= 2
    /\ Len(tree[n].child) = Cardinality(LegalMoves(tree[n].board))

\* the children of node n that have no visit yet
Unvisited(n) ==
  {tree[n].child[j] : j \in {l \in 1..Len(tree[n].child) : tree[tree[n].child[l]].visit = 0}}

C12_SameSeedSameRun ==
  [][(pc = "select" /\ is_selectable(NodeAt(cur_node))) =>
       \A g \in Garbage :
         /\ cur_node' = BestChild(NodeAt(cur_node), 1, -1, max_node, g)
         /\ path' = Append(path, BestChild(NodeAt(cur_node), 1, -1, max_node, g))]_vars

\* C12 witness: run_mcts has returned a move after select compared the scores
\* of the children of a node below the root
C12_Witness ==
  /\ pc = "done" /\ result # NoAction /\ N >= 2
  /\ \E n \in Nodes \ {Root} : Len(tree[n].child) >= 2 /\ tree[n].visit > Len(tree[n].child)

\* C13: when the root position has exactly one legal move and N >= 1, run_mcts
\* returns that move
C13_SingleLegalMoveReturned ==
  (pc = "done" /\ N >= 1 /\ Cardinality(LegalMoves(tree[Root].board)) = 1) =>
    \E m \in LegalMoves(tree[Root].board) :
      result = [pos |-> m, who |-> tree[Root].board.who]

\* C13 witness: run_mcts has returned after several iterations on a root with
\* one legal move among several empty cells
C13_Witness ==
  /\ pc = "done" /\ N >= 2 /\ i = N
  /\ Cardinality(LegalMoves(tree[Root].board)) = 1
  /\ Cardinality({c \in 1..BoardSize : tree[Root].board.stone[c] = Empty}) >= 2
  /\ Len(tree[Root].child) = 1

\* C14: run_mcts(1) on a root with a legal move creates one child of the root
\* and no other node, leaves root.visit = 1 and returns the child's move
C14_OneIterationOneChild ==
  (pc = "done" /\ N = 1 /\ ~RootTerminal) =>
    /\ Len(tree) = 2
    /\ tree[Root].child = <<2>>
    /\ tree[2].child = <<>>
    /\ tree[Root].visit = 1
    /\ result = [pos |-> tree[2].board.last, who |-> tree[Root].board.who]

\* C14 witness: run_mcts(1) has returned on a root with more than one legal move
C14_Witness ==
  /\ pc = "done" /\ N = 1 /\ i = 1
  /\ Cardinality(LegalMoves(tree[Root].board)) >= 2
  /\ Len(tree) = 2

\* the score select computes for node n; no read of it is stale (C9)
Score(n) == ucb_score(n, 0)

\* C15: the path select returns starts with the root; each later element is a
\* child of the element before it whose score is a number, is not below any
\* sibling's and is above every earlier sibling's; every element but the last
\* is fully expanded and not terminal; the last is terminal or not fully expanded
C15_SelectPath ==
  pc = "expand" =>
    /\ Len(path) >= 1
    /\ path[1] = tree[Root].addr
    /\ \A j \in 1..Len(path) : Live(path[j])
    /\ \A j \in 1..(Len(path) - 1) :
         LET p    == NodeAt(path[j])
             c    == NodeAt(path[j + 1])
             kids == tree[p].child
         IN  /\ LegalMoves(tree[p].board) # {}
             /\ Len(kids) = Cardinality(LegalMoves(tree[p].board))
             /\ \E l \in 1..Len(kids) :
                  /\ kids[l] = c
                  /\ \A h \in 1..Len(kids) :
                       /\ Score(kids[h]) # NaN
                       /\ Score(kids[h]) <= Score(c)
                       /\ h < l => Score(kids[h]) < Score(c)
    /\ LET last == NodeAt(path[Len(path)])
       IN  \/ LegalMoves(tree[last].board) = {}
           \/ Len(tree[last].child) < Cardinality(LegalMoves(tree[last].board))

\* C15 witness: select has returned a path of two or more nodes on which one
\* chosen child has a later sibling with the same score
C15_Witness ==
  /\ pc = "expand" /\ Len(path) >= 2
  /\ \E j \in 1..(Len(path) - 1) :
       LET kids == tree[NodeAt(path[j])].child
       IN  \E l, h \in 1..Len(kids) :
             /\ kids[l] = NodeAt(path[j + 1])
             /\ l < h
             /\ Score(kids[h]) = Score(kids[l])

\* the legal moves of node n that are not yet the last move of one of its children
Unexpanded(n) == {m \in LegalMoves(tree[n].board) : ~AlreadyChild(n, m)}

\* C16: expand on a node with a legal move that no child has yet appends one
\* child to it, with win = visit = 0, no children, the node's position after
\* such a move and the node as parent, and returns it; on any other node it
\* leaves the tree as it is and returns the node; no other node's children,
\* position or statistics change
C16_ExpandFrame ==
  [][pc = "expand" =>
       LET back == path[Len(path)]
           n    == NodeAt(back)
       IN  IF Unexpanded(n) # {}
           THEN /\ Len(tree') = Len(tree) + 1
                /\ tree'[Len(tree')].win = 0
                /\ tree'[Len(tree')].visit = 0
                /\ tree'[Len(tree')].child = <<>>
                /\ \E m \in Unexpanded(n) :
                     tree'[Len(tree')].board = Place(tree[n].board, m)
                /\ tree'[Len(tree')].parent = tree'[n].addr
                /\ tree'[n].addr = back
                /\ tree'[n].child = Append(tree[n].child, Len(tree'))
                /\ leaf' = tree'[Len(tree')].addr
                /\ path' = Append(path, leaf')
                /\ \A m \in Nodes \ {n} : tree'[m].child = tree[m].child
                /\ \A m \in Nodes :
                     /\ tree'[m].board = tree[m].board
                     /\ tree'[m].win = tree[m].win
                     /\ tree'[m].visit = tree[m].visit
                     /\ tree'[m].parent = tree[m].parent
           ELSE /\ tree' = tree
                /\ leaf' = back
                /\ path' = path]_vars

\* C16 witness: expand has appended a child to a node that had a child already
C16_Witness ==
  /\ pc = "simulate" /\ Len(path) >= 2 /\ leaf = path[Len(path)]
  /\ tree[NodeAt(leaf)].visit = 0
  /\ Len(tree[ParentOf(NodeAt(leaf))].child) >= 2

\* the position simulate's loop ends on when it starts at the leaf
PlayoutEnd == Playout(tree[NodeAt(leaf)].board, all_moves(engine))

\* C17: simulate places only legal moves, from the leaf's position to a position
\* with no legal move, and returns the opponent of the player to move there; no
\* node's position, statistics or children change
C17_SimulatePlaysToTheEnd ==
  [][pc = "simulate" =>
       /\ PlayoutEnd \in Closure({tree[NodeAt(leaf)].board})
       /\ LegalMoves(PlayoutEnd) = {}
       /\ winner' = Opponent(PlayoutEnd.who)
       /\ winner' \in {Black, White}
       /\ tree' = tree
       /\ path' = path /\ leaf' = leaf]_vars

\* C17 witness: simulate has returned white as the winner of a playout from a
\* leaf whose position has two or more legal moves
C17_Witness ==
  /\ pc = "update" /\ k = 1 /\ winner = White
  /\ Cardinality(LegalMoves(tree[NodeAt(leaf)].board)) >= 2

\* the number of placements simulate's loop makes from b with the list moves
RECURSIVE PlayoutSteps(_, _)
PlayoutSteps(b, moves) ==
  LET j == FirstLegal(b, moves, 1)
  IN  IF j = 0 THEN 0 ELSE 1 + PlayoutSteps(Place(b, moves[j]), moves)

\* the number of empty cells of b
EmptyCells(b) == Cardinality({c \in 1..BoardSize : b.stone[c] = Empty})

\* the steps one iteration takes at most: enter, descend, return the path,
\* expand, simulate, update every node of the path, end
IterSteps == 2 * PathCap + 6

\* the number of steps run_mcts still takes at most
Rank ==
  IF pc = "done" THEN 0
  ELSE 1 + IterSteps * (N - i) - (CASE pc = "loop" -> 0
                                    [] pc = "select" -> Len(path)
                                    [] pc = "expand" -> PathCap + 1
                                    [] pc = "simulate" -> PathCap + 2
                                    [] OTHER -> PathCap + 2 + k)

\* C18: run_mcts returns. In every round of select's loop some child's score
\* is above the floor of -1 and the cursor moves to a child of the node it was
\* on, never to a null or stale max_node; the descent is shorter than the
\* longest game; simulate's loop places no more stones than the leaf's position
\* has empty cells; and every step lowers a count of the steps left that is
\* never negative
C18_RunMctsReturns ==
  /\ [](/\ pc # "undefined"
        /\ pc = "select" =>
             /\ Live(cur_node)
             /\ is_selectable(NodeAt(cur_node)) =>
                  /\ Len(path) < PathCap
                  /\ \E j \in 1..Len(tree[NodeAt(cur_node)].child) :
                       ScoreGT(Score(tree[NodeAt(cur_node)].child[j]), -1)
        /\ pc = "simulate" =>
             PlayoutSteps(tree[NodeAt(leaf)].board, all_moves(engine))
               <= EmptyCells(tree[NodeAt(leaf)].board)
        /\ Rank >= 0)
  /\ [][/\ Rank' < Rank
        /\ (pc = "select" /\ pc' = "select") =>
             \E j \in 1..Len(tree[NodeAt(cur_node)].child) :
               cur_node' = tree[tree[NodeAt(cur_node)].child[j]].addr]_vars

\* C18 witness: run_mcts has returned a move after five or more iterations that
\* descended below the root and gave a child of the root two or more children
C18_Witness ==
  /\ pc = "done" /\ N >= 5 /\ i = N /\ result # NoAction
  /\ \E n \in Nodes \ {Root} : Len(tree[n].child) >= 2

\* C19: when select compares the children of a node, every one of them has
\* visit >= 1, the parent->visit that ucb_score reads is at least the child's
\* visit, and the score is a number; between iterations no node but the root has
\* visit = 0, and a node with visit = 0 is the leaf expand has just created
C19_ScoresWellDefined ==
  /\ (pc = "select" /\ is_selectable(NodeAt(cur_node))) =>
       \A j \in 1..Len(tree[NodeAt(cur_node)].child) : \A g \in Garbage :
         LET c == tree[NodeAt(cur_node)].child[j]
         IN  /\ tree[c].visit >= 1
             /\ ParentVisit(c, g) >= tree[c].visit
             /\ ParentVisit(c, g) = tree[NodeAt(cur_node)].visit
             /\ ucb_score(c, g) # NaN
  /\ pc \in {"loop", "select", "expand", "done"} =>
       \A n \in Nodes \ {Root} : tree[n].visit >= 1 /\ tree[ParentOf(n)].visit >= tree[n].visit
  /\ \A n \in Nodes \ {Root} : tree[n].visit = 0 => tree[n].addr = leaf

\* C19 witness: select compares the scores of two or more children of a node
\* below the root
C19_Witness ==
  /\ pc = "select" /\ cur_node # tree[Root].addr /\ is_selectable(NodeAt(cur_node))
  /\ Len(tree[NodeAt(cur_node)].child) >= 2

\* the agent was built without an option N, or with an empty one
NoNOption == "N" \notin DOMAIN meta \/ meta["N"] = <<>>

\* C20: player::take_action runs run_mcts with the number the option N holds.
\* Without an option N it does not run DefaultN iterations: the read of meta["N"]
\* leaves an empty value under the key, the conversion fails, and take_action
\* ends in an error with no node built, no iteration run and no move returned;
\* nothing follows the error
C20_NoDefaultWithoutN ==
  /\ [][/\ pc = "take_action" =>
             /\ "N" \in DOMAIN meta'
             /\ NoNOption =>
                  /\ meta'["N"] = <<>>
                  /\ pc' = "error"
                  /\ tree' = <<>> /\ i' = 0 /\ result' = NoAction
             /\ pc' = "loop" => Stod(meta'["N"]).ok /\ N' = Stod(meta'["N"]).val
             /\ pc' \in {"loop", "error"}
        /\ pc # "error"
        /\ pc # "take_action" => meta' = meta /\ N' = N]_vars
  /\ [](pc = "done" =>
          /\ ~(meta["N"] = <<>>)
          /\ i = N /\ tree[Root].visit = N
          /\ meta["N"] = <<"3">> => N = 3
          /\ meta["N"] = <<"1", ".", "5">> => N = 1)

\* C20 witness: take_action of an agent built without a usable option N has
\* ended in the error, with the default still in N and nothing run
C20_Witness ==
  /\ pc = "error" /\ meta["N"] = <<>>
  /\ N = DefaultN /\ i = 0 /\ tree = <<>> /\ result = NoAction
====
